---- MODULE Spec2Model ----
(***************************************************************************)
(* Model of accounts/acnt-mgmt.py: the Heroku team-membership audit tool.  *)
(*                                                                         *)
(* Python strings that the code inspects (emails, tokens) are sequences of *)
(* one-character strings, so startswith/endswith are computed, not assumed.*)
(* Python's None is the one-element sequence <<"None">>, which no string   *)
(* of one-character elements can equal.                                    *)
(***************************************************************************)
EXTENDS Integers, Sequences, FiniteSets, TLC

VARIABLES
    pc,                 \* position of main(): start, loggedin, returned, done, or
                        \* login_raised, handler_raised, render_raised
    ctx,                \* the argparse Namespace returned by _parse_args
    Heroku_Token,       \* the module global
    opLog,              \* every `op read <ref>` subprocess run so far
    loginCalls,         \* number of login() calls made
    server,             \* the team's member records as the Heroku API holds them
    members_cache,      \* lru_cache of members(team)
    all_members_cache,  \* lru_cache of all_members(team)
    requests,           \* every HTTP request issued, in order
    result,             \* the value the handler returned to main
    stdout,             \* what was printed
    clipboard,          \* what pyperclip.copy received
    error,              \* the exception that ended the run
    record,             \* a raw member record (classifier specification)
    account,            \* the Account built from it
    cpc                 \* position of the construct-and-classify sequence

vars == <<pc, ctx, Heroku_Token, opLog, loginCalls, server, members_cache,
          all_members_cache, requests, result, stdout, clipboard, error,
          record, account, cpc>>

mainVars == <<pc, ctx, Heroku_Token, opLog, loginCalls, server, members_cache,
              all_members_cache, requests, result, stdout, clipboard, error>>

classifyVars == <<record, account, cpc>>

----------------------------------------------------------------------------
(* Bounds of the model *)

MaxMembers == 2
MaxEmails == 2
MaxLogins == 3

----------------------------------------------------------------------------
(* Python values *)

None == <<"None">>

StartsWith(s, p) == Len(s) >= Len(p) /\ SubSeq(s, 1, Len(p)) = p

EndsWith(s, p) == Len(s) >= Len(p) /\ SubSeq(s, Len(s) - Len(p) + 1, Len(s)) = p

\* str.endswith(tuple): true when the string ends with any member
EndsWithAny(s, ps) == \E p \in ps : EndsWith(s, p)

Team == "mozillacorporation"

ServicePrefix == <<"h","e","r","o","k","u","-">>

ExampleDomain == <<"@","e","x","a","m","p","l","e",".","c","o","m">>

OpPrefix == <<"o","p",":","/","/">>

Staff_Email_Domains ==
    { <<"@","m","o","z","i","l","l","a",".","c","o","m">>,
      <<"@","m","o","z","i","l","l","a","f","o","u","n","d","a","t","i","o","n",".","o","r","g">>,
      <<"@","g","e","t","p","o","c","k","e","t",".","c","o","m">>,
      <<"@","r","e","a","d","i","t","l","a","t","e","r",".","c","o","m">>,
      <<"@","m","o","z","i","l","l","a","-","j","a","p","a","n",".","o","r","g">>,
      <<"@","m","o","z","i","l","l","a",".","a","i">>,
      <<"@","m","o","z","i","l","l","a",".","v","c">>,
      <<"@","t","h","u","n","d","e","r","b","i","r","d",".","n","e","t">> }

Account_Type == {"UNSET", "STAFF", "SERVICE", "COMMUNITY", "UNKNOWN"}

Account_Status == {"UNSET", "OKAY", "BAD", "UNKNOWN"}

\* a value json.loads can put under a key: never a member of either enum
JsonString == "json-string"

----------------------------------------------------------------------------
(* class Account *)

FieldNames == <<"email", "federated", "role", "two_factor_authentication",
                "account_type", "account_status", "needs_action">>

\* Account(): the dataclass defaults
NewAccount ==
    [ email |-> <<>>,
      federated |-> FALSE,
      role |-> "str | None",
      two_factor_authentication |-> FALSE,
      account_type |-> "UNSET",
      account_status |-> "UNSET",
      needs_action |-> TRUE ]

set_value(self, name, value) == [self EXCEPT ![name] = value]

\* all_members' inner loop: copy every dataclass field the raw record has
RECURSIVE CopyFields(_, _, _)
CopyFields(acnt, d, i) ==
    IF i > Len(FieldNames) THEN acnt
    ELSE LET k == FieldNames[i]
         IN CopyFields(IF k \in d.keys THEN set_value(acnt, k, d.vals[k]) ELSE acnt,
                       d, i + 1)

\* First figure out what type of account it is
TypeOf(email) ==
    IF EndsWithAny(email, Staff_Email_Domains)
    THEN IF StartsWith(email, ServicePrefix) THEN "SERVICE" ELSE "STAFF"
    ELSE IF StartsWith(email, ServicePrefix) THEN "UNKNOWN" ELSE "COMMUNITY"

StatusOf_NoServiceRule(self, type) ==
    IF self.federated /\ type = "STAFF" THEN "OKAY"
    ELSE IF self.two_factor_authentication /\ type = "COMMUNITY" THEN "OKAY"
    ELSE IF self.account_status = "UNKNOWN" THEN "UNKNOWN"
    ELSE "BAD"

\* Now figure if the authentication method is valid
StatusOf(self, type) ==
    IF self.federated /\ type = "STAFF" THEN "OKAY"
    ELSE IF self.two_factor_authentication /\ type = "COMMUNITY" THEN "OKAY"
    ELSE IF type = "SERVICE" /\ ~(self.federated /\ self.two_factor_authentication)
         THEN "OKAY"
    ELSE IF self.account_status = "UNKNOWN" THEN "UNKNOWN"
    ELSE "BAD"

NeedsAction_KeepsOld(self, type, status) ==
    IF type \notin {"UNKNOWN", "UNSET"} /\ status = "OKAY"
    THEN FALSE
    ELSE self.needs_action

\* Finally, is action needed
NeedsAction(self, type, status) ==
    IF type \notin {"UNKNOWN", "UNSET"} /\ status = "OKAY"
    THEN FALSE
    ELSE TRUE

\* Account.classify: [raised, acnt]; the assertions raise AssertionError
classify(self) ==
    IF self.account_type # "UNSET" \/ self.account_status # "UNSET"
    THEN [raised |-> TRUE, acnt |-> self]
    ELSE LET type == TypeOf(self.email)
             status == StatusOf(self, type)
             done == [self EXCEPT !.account_type = type,
                                  !.account_status = status,
                                  !.needs_action = NeedsAction(self, type, status)]
         IN [raised |-> done.account_type = "UNSET" \/ done.account_status = "UNSET",
             acnt |-> done]

----------------------------------------------------------------------------
(* Raw member records, as json.loads returns them *)

RawRecord(keys, email, federated, role, two_factor, needs) ==
    [ keys |-> keys,
      vals |-> [ email |-> email,
                 federated |-> federated,
                 role |-> role,
                 two_factor_authentication |-> two_factor,
                 account_type |-> JsonString,
                 account_status |-> JsonString,
                 needs_action |-> needs ] ]

ApiKeys == {"email", "federated", "role", "two_factor_authentication"}

Locals ==
    { <<>>, <<"a">>, ServicePrefix, ServicePrefix \o <<"c","i">>,
      <<"h","e","r","o","k","u">>, <<"x">> \o ServicePrefix }

Domains ==
    Staff_Email_Domains \cup
    { ExampleDomain,
      <<"@","g","m","a","i","l",".","c","o","m">>,
      <<"@","m","o","z","i","l","l","a",".","o","r","g">>,
      <<"m","o","z","i","l","l","a",".","c","o","m">>,
      <<"@","m","o","z","i","l","l","a",".","c","o","m",".","x">>,
      <<>> }

Emails == { l \o d : l \in Locals, d \in Domains }

\* the records the classifier is exercised on: every email, both flags, and
\* every combination of the computed fields' keys being present in the record
RawRecords ==
    { r \in { RawRecord(ApiKeys \cup extra, e, f, "admin", t, n) :
                e \in Emails, f \in BOOLEAN, t \in BOOLEAN, n \in BOOLEAN,
                extra \in SUBSET {"account_type", "account_status", "needs_action"} } :
        "needs_action" \notin r.keys => r.vals.needs_action }

----------------------------------------------------------------------------
(* The state main() starts from, and the values no run has produced yet *)

NotCached == [hit |-> FALSE, value |-> <<>>]

Cached(v) == [hit |-> TRUE, value |-> v]

NoClip == [set |-> FALSE, text |-> <<>>]

IdleContext ==
    [ token |-> None, team |-> Team, clip |-> FALSE,
      func |-> "member_emails", all |-> FALSE, emails |-> <<>> ]

MainIdle ==
    /\ pc = "idle"
    /\ ctx = IdleContext
    /\ Heroku_Token = None
    /\ opLog = <<>>
    /\ loginCalls = 0
    /\ server = <<>>
    /\ members_cache = NotCached
    /\ all_members_cache = NotCached
    /\ requests = <<>>
    /\ result = <<>>
    /\ stdout = <<>>
    /\ clipboard = NoClip
    /\ error = ""

ClassifyIdle ==
    /\ record = RawRecord({}, <<>>, FALSE, "admin", FALSE, TRUE)
    /\ account = NewAccount
    /\ cpc = "idle"

----------------------------------------------------------------------------
(* The classifier on its own: one record is built into an Account and       *)
(* classified, as all_members does for each record of the list.            *)

ClassifyInit ==
    /\ MainIdle
    /\ record \in RawRecords
    /\ account = NewAccount
    /\ cpc = "new"

\* acnt = Account(); for k in fields: if k in d: acnt.set_value(k, d[k])
Construct ==
    /\ cpc = "new"
    /\ account' = CopyFields(NewAccount, record, 1)
    /\ cpc' = "filled"
    /\ UNCHANGED <<record, mainVars>>

\* acnt.classify(), also when the account was classified before
Classify ==
    /\ cpc \in {"filled", "classified"}
    /\ LET r == classify(account)
       IN /\ account' = r.acnt
          /\ cpc' = IF r.raised THEN "AssertionError" ELSE "classified"
    /\ UNCHANGED <<record, mainVars>>

ClassifyNext == Construct \/ Classify

ClassifySpec == ClassifyInit /\ [][ClassifyNext]_vars

----------------------------------------------------------------------------
(* Credential resolver *)

IsSpace(c) == c \in {" ", "\n", "\t"}

RECURSIVE LStrip(_)
LStrip(s) == IF s # <<>> /\ IsSpace(Head(s)) THEN LStrip(Tail(s)) ELSE s

RECURSIVE RStrip(_)
RStrip(s) ==
    IF s # <<>> /\ IsSpace(s[Len(s)]) THEN RStrip(SubSeq(s, 1, Len(s) - 1)) ELSE s

\* bytes.strip()
Strip(s) == LStrip(RStrip(s))

PlainToken == <<"t","0","k">>

OpRef1 == OpPrefix \o <<"v","/","a">>

OpRef2 == OpPrefix \o <<"v","/","b">>

\* what `op read` can do: exit 0 with the secret on stdout, or fail
OpRuns ==
    { [ok |-> TRUE, out |-> <<"s","1","\n">>],
      [ok |-> TRUE, out |-> <<" ","s","2","\n">>],
      [ok |-> FALSE, out |-> <<>>] }

\* login(token, team) with `held` the global's value and `log` the op runs so
\* far. The test `if Heroku_Token: pass` falls through to the code below it.
login(token, held, log, op) ==
    IF token = None
    THEN [exc |-> "AttributeError", token |-> held, log |-> log]
    ELSE IF StartsWith(token, OpPrefix)
         THEN IF op.ok
              THEN [exc |-> "", token |-> Strip(op.out), log |-> Append(log, token)]
              ELSE [exc |-> "SystemExit", token |-> held, log |-> Append(log, token)]
         ELSE [exc |-> "", token |-> token, log |-> log]

----------------------------------------------------------------------------
(* Python objects handed around at run time carry their type *)

Obj(kind, v) == [kind |-> kind, v |-> v]

\* an f-string of the program, by its template and the values put into it
Text(fmt, addr) == Obj("str", [fmt |-> fmt, addr |-> addr, team |-> Team])

NoValue == Obj("NoneType", <<>>)

----------------------------------------------------------------------------
(* API client. The world an operation runs in and leaves behind:           *)
(* w = [server, mcache, acache, requests]                                  *)

World ==
    [ server |-> server, mcache |-> members_cache,
      acache |-> all_members_cache, requests |-> requests ]

\* idx: the position in ctx.emails being processed when the request is made
\* (0 outside a batch); code: the HTTP status, 0 when no response arrived;
\* ret: what do_revoke did with the response
Request(method, addr, idx, code, ret) ==
    [method |-> method, addr |-> addr, idx |-> idx, code |-> code, ret |-> ret]

CacheHit_Never(c) == FALSE

\* functools.lru_cache: the wrapped function runs only on a miss
CacheHit(c) == c.hit

\* members(team)
members(w, idx, getOK) ==
    IF CacheHit(w.mcache)
    THEN [exc |-> "", w |-> w, value |-> w.mcache.value]
    ELSE IF getOK
         THEN [exc |-> "",
               w |-> [w EXCEPT !.mcache = Cached(w.server),
                               !.requests = Append(@, Request("GET", <<>>, idx, 200,
                                                              [exc |-> "", value |-> Obj("list", w.server)]))],
               value |-> w.server]
         ELSE [exc |-> "HTTPError",
               w |-> [w EXCEPT !.requests = Append(@, Request("GET", <<>>, idx, 500,
                                                              [exc |-> "HTTPError", value |-> NoValue]))],
               value |-> <<>>]

\* the answer of the API to DELETE /teams/{team}/members/{addr}
ServerDelete(srv, addr, fault) ==
    IF fault = "http403" THEN [code |-> 403, server |-> srv]
    ELSE IF fault = "http500" THEN [code |-> 500, server |-> srv]
    ELSE IF fault = "url" THEN [code |-> 0, server |-> srv]
    ELSE IF \E k \in 1..Len(srv) : srv[k].vals.email = addr
         THEN [code |-> 200,
               server |-> SelectSeq(srv, LAMBDA r : r.vals.email # addr)]
         ELSE [code |-> 404, server |-> srv]

do_revoke_result_Swallow(addr, code) ==
    IF code = 200 THEN [exc |-> "", value |-> Obj("dict", [email |-> addr])]
    ELSE [exc |-> "", value |-> Text("{addr} is not a member of {ctx.team} ({e.code})", addr)]

\* do_revoke's try/except around urlopen: an OSError without .code (URLError,
\* a socket error) makes the handler's own `e.code` raise AttributeError
do_revoke_result(addr, code) ==
    IF code = 200 THEN [exc |-> "", value |-> Obj("dict", [email |-> addr])]
    ELSE IF code = 0 THEN [exc |-> "AttributeError", value |-> NoValue]
    ELSE IF code = 404
         THEN [exc |-> "",
               value |-> Text("{addr} is not a member of {ctx.team} ({e.code})", addr)]
         ELSE [exc |-> "HTTPError", value |-> NoValue]

\* do_revoke(addr, ctx)
do_revoke(addr, w, idx, fault) ==
    LET answer == ServerDelete(w.server, addr, fault)
        r == do_revoke_result(addr, answer.code)
    IN [exc |-> r.exc,
        w |-> [w EXCEPT !.server = answer.server,
                        !.requests = Append(@, Request("DELETE", addr, idx, answer.code, r))],
        value |-> r.value]

----------------------------------------------------------------------------
(* Heroku API access and the routines that report on members *)

\* the value of v, computed once, handed to the rest of the function body
Then(v, Rest(_)) == CHOOSE r \in { Rest(x) : x \in {v} } : TRUE

RECURSIVE ClassifyAll(_, _, _)
ClassifyAll(data, i, acc) ==
    IF i > Len(data) THEN [exc |-> "", value |-> acc]
    ELSE Then(classify(CopyFields(NewAccount, data[i], 1)), LAMBDA r :
            IF r.raised
            THEN [exc |-> "AssertionError", value |-> acc]
            ELSE ClassifyAll(data, i + 1, Append(acc, r.acnt)))

\* all_members(team)
all_members(w, idx, getOK) ==
    IF CacheHit(w.acache)
    THEN [exc |-> "", w |-> w, value |-> w.acache.value]
    ELSE Then(members(w, idx, getOK), LAMBDA m :
            IF m.exc # ""
            THEN [exc |-> m.exc, w |-> m.w, value |-> <<>>]
            ELSE Then(ClassifyAll(m.value, 1, <<>>), LAMBDA c :
                    IF c.exc # ""
                    THEN [exc |-> c.exc, w |-> m.w, value |-> <<>>]
                    ELSE [exc |-> "",
                          w |-> [m.w EXCEPT !.acache = Cached(c.value)],
                          value |-> c.value]))

\* member_emails(ctx)
member_emails(w, idx, getOK) ==
    Then(all_members(w, idx, getOK), LAMBDA full_info :
        [exc |-> full_info.exc,
         w |-> full_info.w,
         value |-> [k \in 1..Len(full_info.value) |->
                       Obj("str", full_info.value[k].email)]])

is_member_NoCarveOut(email, w, idx, getOK) ==
    Then(member_emails(w, idx, getOK), LAMBDA data :
        [exc |-> data.exc,
         w |-> data.w,
         value |-> \E k \in 1..Len(data.value) : data.value[k].v = email])

is_member_CarveOutEverything(email, w, idx, getOK) ==
    IF EndsWith(email, <<>>)
    THEN [exc |-> "", w |-> w, value |-> TRUE]
    ELSE Then(member_emails(w, idx, getOK), LAMBDA data :
            [exc |-> data.exc,
             w |-> data.w,
             value |-> \E k \in 1..Len(data.value) : data.value[k].v = email])

\* is_member(email, ctx)
is_member(email, w, idx, getOK) ==
    IF EndsWith(email, ExampleDomain)
    THEN [exc |-> "", w |-> w, value |-> TRUE]
    ELSE Then(member_emails(w, idx, getOK), LAMBDA data :
            [exc |-> data.exc,
             w |-> data.w,
             value |-> \E k \in 1..Len(data.value) : data.value[k].v = email])

\* revoke(email, ctx)
revoke(email, w, idx, getOK, fault) ==
    Then(is_member(email, w, idx, getOK), LAMBDA m :
        IF m.exc # "" THEN [exc |-> m.exc, w |-> m.w, value |-> NoValue]
        ELSE IF ~m.value
             THEN [exc |-> "", w |-> m.w,
                   value |-> Text("FAIL: {email} is not a member of {ctx.team}", email)]
             ELSE do_revoke(email, m.w, idx, fault))

RECURSIVE member_list_loop(_, _, _, _)
member_list_loop(everyone, all, i, acc) ==
    IF i > Len(everyone) THEN acc
    ELSE member_list_loop(everyone, all, i + 1,
                          IF everyone[i].needs_action \/ all
                          THEN Append(acc, Obj("Account", everyone[i]))
                          ELSE acc)

member_list_IgnoresAll(w, all, getOK) ==
    Then(all_members(w, 0, getOK), LAMBDA everyone :
        [exc |-> everyone.exc,
         w |-> everyone.w,
         value |-> member_list_loop(everyone.value, FALSE, 1, <<>>)])

\* member_list(ctx)
member_list(w, all, getOK) ==
    Then(all_members(w, 0, getOK), LAMBDA everyone :
        [exc |-> everyone.exc,
         w |-> everyone.w,
         value |-> member_list_loop(everyone.value, all, 1, <<>>)])

\* membership_verify's for loop from address i on
RECURSIVE membership_verify_loop(_, _, _, _, _)
membership_verify_loop(emails, i, w, status, getOK) ==
    IF i > Len(emails) THEN [exc |-> "", w |-> w, value |-> status]
    ELSE Then(is_member(emails[i], w, i, getOK), LAMBDA m :
            IF m.exc # "" THEN [exc |-> m.exc, w |-> m.w, value |-> <<>>]
            ELSE membership_verify_loop(
                    emails, i + 1, m.w,
                    Append(status,
                           IF m.value
                           THEN Text("{addr} is a member of {ctx.team}", emails[i])
                           ELSE Text("{addr} is NOT a member of {ctx.team}", emails[i])),
                    getOK))

\* membership_verify(ctx)
membership_verify(w, emails, getOK) ==
    membership_verify_loop(emails, 1, w, <<>>, getOK)

except_OSError(exc) == exc \in {"HTTPError", "URLError"}

\* `except Exception as e`: SystemExit and KeyboardInterrupt are not Exceptions
except_Exception(exc) == exc \notin {"SystemExit", "KeyboardInterrupt"}

\* membership_revoke's for loop from address i on; st = [w, status, out],
\* `out` the repr(e) lines printed by the except clause
RECURSIVE membership_revoke_loop(_, _, _, _, _)
membership_revoke_loop(emails, i, st, getOK, faults) ==
    IF i > Len(emails)
    THEN [exc |-> "", w |-> st.w, value |-> st.status, out |-> st.out]
    ELSE Then(is_member(emails[i], st.w, i, getOK), LAMBDA m :
            IF m.exc # ""
            THEN [exc |-> m.exc, w |-> m.w, value |-> <<>>, out |-> st.out]
            ELSE IF m.value
                 THEN Then(revoke(emails[i], m.w, i, getOK, faults[i]), LAMBDA r :
                        IF r.exc # "" /\ ~except_Exception(r.exc)
                        THEN [exc |-> r.exc, w |-> r.w, value |-> <<>>, out |-> st.out]
                        ELSE
                        Then(IF r.exc # ""
                             THEN [w |-> r.w,
                                   status |-> Append(st.status,
                                      Text("{addr} failed membership revocation from {ctx.team}",
                                           emails[i])),
                                   out |-> Append(st.out, [line |-> "repr(e)", v |-> r.exc])]
                             ELSE [w |-> r.w,
                                   status |-> Append(st.status, r.value),
                                   out |-> st.out],
                             LAMBDA next :
                                membership_revoke_loop(emails, i + 1, next, getOK, faults)))
                 ELSE Then([w |-> m.w,
                            status |-> Append(st.status,
                               Text("{addr} was NOT a member of {ctx.team}", emails[i])),
                            out |-> st.out],
                           LAMBDA next :
                              membership_revoke_loop(emails, i + 1, next, getOK, faults)))

\* membership_revoke(ctx)
membership_revoke(w, emails, getOK, faults) ==
    membership_revoke_loop(emails, 1, [w |-> w, status |-> <<>>, out |-> <<>>],
                           getOK, faults)

\* Account.as_text
as_text(self) ==
    Obj("str",
        [ action |-> IF self.needs_action THEN "BAD!" ELSE "okay",
          type |-> self.account_type,
          status |-> IF self.needs_action THEN self.account_status ELSE "",
          SSO |-> self.needs_action /\ self.federated,
          TwoFA |-> self.needs_action /\ self.two_factor_authentication,
          email |-> self.email,
          role |-> self.role ])

----------------------------------------------------------------------------
(* One run of main() *)

SeqsUpTo(S, n) == UNION { [1..k -> S] : k \in 0..n }

StaffMember ==
    RawRecord(ApiKeys, <<"a">> \o <<"@","m","o","z","i","l","l","a",".","c","o","m">>,
              TRUE, "admin", FALSE, TRUE)

CommunityMember ==
    RawRecord(ApiKeys, <<"u">> \o <<"@","g","m","a","i","l",".","c","o","m">>,
              FALSE, "member", FALSE, TRUE)

ExampleMember ==
    RawRecord(ApiKeys, <<"g">> \o ExampleDomain, FALSE, "member", TRUE, TRUE)

Directory == {StaffMember, CommunityMember, ExampleMember}

\* a team's member list: no address twice
ServerStates ==
    { l \in SeqsUpTo(Directory, MaxMembers) :
        \A i, j \in 1..Len(l) : l[i] = l[j] => i = j }

GhostAddr == <<"g","h","o","s","t">> \o <<"@","n","o","w","h","e","r","e",".","t","e","s","t">>

Targets == {StaffMember.vals.email, ExampleMember.vals.email, GhostAddr}

Tokens == {None, PlainToken, OpRef1}

\* context.func.__name__, in the parts split("_") gives
MemberListFn == <<"member", "list">>

MemberEmailsFn == <<"member", "emails">>

MembershipVerifyFn == <<"membership", "verify">>

MembershipRevokeFn == <<"membership", "revoke">>

\* what _parse_args can return: emails has nargs="+", --all is list's flag
Contexts ==
    { c \in [ token : Tokens, team : {Team}, clip : BOOLEAN,
              func : {MemberListFn, MemberEmailsFn, MembershipVerifyFn, MembershipRevokeFn},
              all : BOOLEAN, emails : SeqsUpTo(Targets, MaxEmails) ] :
        /\ c.all => c.func = MemberListFn
        /\ c.func \in {MemberListFn, MemberEmailsFn} <=> c.emails = <<>> }

DelFaults == {"none", "http403", "http500", "url"}

Init ==
    /\ pc = "start"
    /\ ctx \in Contexts
    /\ Heroku_Token = None
    /\ opLog = <<>>
    /\ loginCalls = 0
    /\ server \in ServerStates
    /\ members_cache = NotCached
    /\ all_members_cache = NotCached
    /\ requests = <<>>
    /\ result = <<>>
    /\ stdout = <<>>
    /\ clipboard = NoClip
    /\ error = ""
    /\ ClassifyIdle

\* login(context.token, context.team)
Login ==
    /\ pc = "start"
    /\ \E op \in OpRuns :
          LET r == login(ctx.token, Heroku_Token, opLog, op)
          IN /\ Heroku_Token' = r.token
             /\ opLog' = r.log
             /\ pc' = IF r.exc = "" THEN "loggedin" ELSE "login_raised"
             /\ error' = r.exc
    /\ loginCalls' = loginCalls + 1
    /\ UNCHANGED <<ctx, server, members_cache, all_members_cache, requests,
                   result, stdout, clipboard, classifyVars>>

\* result = context.func(context): what the call leaves behind
Returns(r, printed) ==
    /\ server' = r.w.server
    /\ members_cache' = r.w.mcache
    /\ all_members_cache' = r.w.acache
    /\ requests' = r.w.requests
    /\ stdout' = stdout \o printed
    /\ result' = r.value
    /\ error' = r.exc
    /\ pc' = IF r.exc = "" THEN "returned" ELSE "handler_raised"
    /\ UNCHANGED <<ctx, Heroku_Token, opLog, loginCalls, clipboard, classifyVars>>

MemberList ==
    /\ pc = "loggedin"
    /\ ctx.func = MemberListFn
    /\ \E getOK \in BOOLEAN :
          \E r \in {member_list(World, ctx.all, getOK)} : Returns(r, <<>>)

MemberEmails ==
    /\ pc = "loggedin"
    /\ ctx.func = MemberEmailsFn
    /\ \E getOK \in BOOLEAN :
          \E r \in {member_emails(World, 0, getOK)} : Returns(r, <<>>)

MembershipVerify ==
    /\ pc = "loggedin"
    /\ ctx.func = MembershipVerifyFn
    /\ \E getOK \in BOOLEAN :
          \E r \in {membership_verify(World, ctx.emails, getOK)} : Returns(r, <<>>)

MembershipRevoke ==
    /\ pc = "loggedin"
    /\ ctx.func = MembershipRevokeFn
    /\ \E getOK \in BOOLEAN, faults \in [1..Len(ctx.emails) -> DelFaults] :
          \E r \in {membership_revoke(World, ctx.emails, getOK, faults)} :
             Returns(r, r.out)

\* main, from `fname = ...` to `print(output)`: [exc, output]
render(res) ==
    IF res = <<>> THEN [exc |-> "IndexError", output |-> <<>>]
    ELSE IF res[1].kind = "Account"
         THEN [exc |-> "", output |-> [k \in 1..Len(res) |-> as_text(res[k].v)]]
         ELSE IF \E k \in 1..Len(res) : res[k].kind # "str"
              THEN [exc |-> "TypeError", output |-> <<>>]
              ELSE [exc |-> "", output |-> res]

Render ==
    /\ pc = "returned"
    /\ LET header == [line |-> "result of running {fname}", v |-> ctx.func[2]]
           r == render(result)
       IN IF r.exc # ""
          THEN /\ pc' = "render_raised"
               /\ error' = r.exc
               /\ stdout' = Append(stdout, header)
               /\ clipboard' = clipboard
          ELSE /\ pc' = "done"
               /\ error' = ""
               /\ clipboard' = IF ctx.clip THEN [set |-> TRUE, text |-> r.output]
                                           ELSE clipboard
               /\ stdout' = stdout \o <<header>>
                              \o (IF ctx.clip
                                  THEN <<[line |-> "(also copied to clipboard)", v |-> <<>>]>>
                                  ELSE <<>>)
                              \o <<[line |-> "output", v |-> r.output]>>
    /\ UNCHANGED <<ctx, Heroku_Token, opLog, loginCalls, server, members_cache,
                   all_members_cache, requests, result, classifyVars>>

Next ==
    \/ Login
    \/ MemberList
    \/ MemberEmails
    \/ MembershipVerify
    \/ MembershipRevoke
    \/ Render

Spec == Init /\ [][Next]_vars

----------------------------------------------------------------------------
(* login() as a function of the module, called any number of times *)

LoginInit ==
    /\ MainIdle
    /\ ClassifyIdle

LoginCall ==
    /\ pc = "idle"
    /\ loginCalls < MaxLogins
    /\ \E token \in Tokens \cup {OpRef2}, op \in OpRuns :
          LET r == login(token, Heroku_Token, opLog, op)
          IN /\ Heroku_Token' = r.token
             /\ opLog' = r.log
             /\ pc' = IF r.exc = "" THEN "idle" ELSE "login_raised"
             /\ error' = r.exc
    /\ loginCalls' = loginCalls + 1
    /\ UNCHANGED <<ctx, server, members_cache, all_members_cache, requests,
                   result, stdout, clipboard, classifyVars>>

LoginNext == LoginCall

LoginSpec == LoginInit /\ [][LoginNext]_vars

----------------------------------------------------------------------------
(* Properties of the classifier, checked under ClassifySpec *)

\* C1: for every member record, classification yields the policy's type
\* (SERVICE: organizational domain and the 'heroku-' prefix; STAFF:
\* organizational domain, no prefix; UNKNOWN: prefix, other domain; COMMUNITY
\* otherwise) and status (OKAY exactly for STAFF+federated, COMMUNITY+2FA,
\* SERVICE without both federated and 2FA; BAD otherwise); neither is UNSET,
\* and the status is never UNKNOWN.
C1_ClassifyFollowsPolicy ==
    cpc = "classified" =>
        LET e == record.vals.email
            fed == record.vals.federated
            tfa == record.vals.two_factor_authentication
            org == \E d \in Staff_Email_Domains : EndsWith(e, d)
            svc == StartsWith(e, ServicePrefix)
            type == account.account_type
        IN /\ (org /\ svc) => type = "SERVICE"
           /\ (org /\ ~svc) => type = "STAFF"
           /\ (~org /\ svc) => type = "UNKNOWN"
           /\ (~org /\ ~svc) => type = "COMMUNITY"
           /\ account.account_status =
                 IF \/ type = "STAFF" /\ fed
                    \/ type = "COMMUNITY" /\ tfa
                    \/ type = "SERVICE" /\ ~(fed /\ tfa)
                 THEN "OKAY" ELSE "BAD"
           /\ type # "UNSET"
           /\ account.account_status \notin {"UNSET", "UNKNOWN"}

\* a service account with both SSO and 2FA has been classified BAD
C1_Witness ==
    /\ cpc = "classified"
    /\ account.account_type = "SERVICE"
    /\ account.federated /\ account.two_factor_authentication
    /\ account.account_status = "BAD"

\* C2: after classification needs-action is false exactly when the type is
\* neither UNKNOWN nor UNSET and the status is OKAY; an UNKNOWN account always
\* needs action; a needs_action value copied from the raw record has no say.
C2_NeedsActionDerived ==
    cpc = "classified" =>
        /\ account.needs_action = FALSE <=>
              /\ account.account_type \notin {"UNKNOWN", "UNSET"}
              /\ account.account_status = "OKAY"
        /\ account.account_type = "UNKNOWN" => account.needs_action

\* the raw record said needs_action false, and classification overrode it
C2_Witness ==
    /\ cpc = "classified"
    /\ "needs_action" \in record.keys
    /\ record.vals.needs_action = FALSE
    /\ account.account_type = "UNKNOWN"
    /\ account.needs_action

----------------------------------------------------------------------------
(* Properties of one run of main(), checked under Spec *)

Returned(fn) == pc = "returned" /\ ctx.func = fn

Deletes == { q \in 1..Len(requests) : requests[q].method = "DELETE" }

Gets == { q \in 1..Len(requests) : requests[q].method = "GET" }

\* addr is in the member list as it was fetched
Listed(addr) ==
    /\ members_cache.hit
    /\ \E k \in 1..Len(members_cache.value) : members_cache.value[k].vals.email = addr

\* C3: member_list returns, in member-list order, exactly the team's
\* classified accounts that need action, or every account under --all.
C3_ListReturnsProblemMembers ==
    Returned(MemberListFn) =>
        /\ all_members_cache.hit
        /\ LET everyone == all_members_cache.value
               keep == { k \in 1..Len(everyone) : everyone[k].needs_action \/ ctx.all }
           IN /\ Len(everyone) = Len(server)
              /\ \A k \in 1..Len(everyone) : everyone[k].email = server[k].vals.email
              /\ Len(result) = Cardinality(keep)
              /\ \A k \in keep :
                    LET i == Cardinality({ j \in keep : j <= k })
                    IN result[i] = Obj("Account", everyone[k])

\* without --all, some accounts were returned and some left out
C3_Witness ==
    /\ Returned(MemberListFn)
    /\ ~ctx.all
    /\ 0 < Len(result)
    /\ Len(result) < Len(all_members_cache.value)

NotAMember(addr) == ~EndsWith(addr, ExampleDomain) /\ ~Listed(addr)

WasNotAMember(addr) == Text("{addr} was NOT a member of {ctx.team}", addr)

FailedRevocation(addr) ==
    Text("{addr} failed membership revocation from {ctx.team}", addr)

NotAMember404(addr) ==
    Text("{addr} is not a member of {ctx.team} ({e.code})", addr)

\* C6: do_revoke turns a 404 answer into the 'not a member' string without
\* raising; any other HTTP error is raised to its caller and no value is
\* returned (membership_revoke, the caller's caller, then reports a failure).
C6_DoRevoke404IsBenign ==
    \A q \in Deletes :
        /\ requests[q].code = 404 =>
              /\ requests[q].ret = [exc |-> "", value |-> NotAMember404(requests[q].addr)]
              /\ Returned(MembershipRevokeFn) =>
                    result[requests[q].idx] = NotAMember404(requests[q].addr)
        /\ requests[q].code \in {403, 500} =>
              /\ requests[q].ret = [exc |-> "HTTPError", value |-> NoValue]
              /\ Returned(MembershipRevokeFn) =>
                    result[requests[q].idx] = FailedRevocation(requests[q].addr)

\* one DELETE was answered 404 and another 403 in the same batch
C6_Witness ==
    /\ Returned(MembershipRevokeFn)
    /\ \E q \in Deletes : requests[q].code = 404
    /\ \E q \in Deletes : requests[q].code = 403

\* C7: the member list is fetched at most once per run and what was fetched
\* is what every later membership check reads: after a successful DELETE of a
\* member, a later revoke of the same address in the same run still finds it
\* a member and issues a second DELETE.
C7_MemberListFetchedOnce ==
    /\ Cardinality(Gets) <= 1
    /\ members_cache.hit =>
          \E q \in Gets : requests[q].ret = [exc |-> "", value |-> Obj("list", members_cache.value)]
    /\ Returned(MembershipRevokeFn) =>
          \A i, j \in 1..Len(ctx.emails) :
              /\ i < j
              /\ ctx.emails[i] = ctx.emails[j]
              /\ \E q \in Deletes : requests[q].idx = i /\ requests[q].code = 200
              => \E q \in Deletes : requests[q].idx = j /\ requests[q].addr = ctx.emails[j]

\* a listed member was deleted (200), is gone from the server, and its second
\* revoke in the batch issued a second DELETE
C7_Witness ==
    /\ Returned(MembershipRevokeFn)
    /\ Len(ctx.emails) >= 2
    /\ ctx.emails[1] = ctx.emails[2]
    /\ Listed(ctx.emails[1])
    /\ ~EndsWith(ctx.emails[1], ExampleDomain)
    /\ \A k \in 1..Len(server) : server[k].vals.email # ctx.emails[1]
    /\ \E q \in Deletes : requests[q].idx = 1 /\ requests[q].code = 200
    /\ \E q \in Deletes : requests[q].idx = 2

\* C8: verify returns one report per address, in order: 'member' exactly when
\* the address is in the fetched member list or ends with '@example.com'.
C8_VerifyReports ==
    Returned(MembershipVerifyFn) =>
        /\ Len(result) = Len(ctx.emails)
        /\ \A i \in 1..Len(ctx.emails) :
              result[i] =
                 IF Listed(ctx.emails[i]) \/ EndsWith(ctx.emails[i], ExampleDomain)
                 THEN Text("{addr} is a member of {ctx.team}", ctx.emails[i])
                 ELSE Text("{addr} is NOT a member of {ctx.team}", ctx.emails[i])

\* an '@example.com' address the team does not have was reported a member,
\* next to an address reported not a member
C8_Witness ==
    /\ Returned(MembershipVerifyFn)
    /\ \E i \in 1..Len(ctx.emails) :
          /\ EndsWith(ctx.emails[i], ExampleDomain)
          /\ \A k \in 1..Len(server) : server[k].vals.email # ctx.emails[i]
          /\ result[i] = Text("{addr} is a member of {ctx.team}", ctx.emails[i])
    /\ \E i \in 1..Len(ctx.emails) :
          result[i] = Text("{addr} is NOT a member of {ctx.team}", ctx.emails[i])

\* C9: whatever list a handler returns, main joins it, copies it to the
\* clipboard exactly when --clip is set, and prints it; the run never fails
\* between the handler returning and the output being printed.
C9_OutputAlwaysPrinted ==
    /\ pc # "render_raised"
    /\ pc = "done" =>
          /\ clipboard.set = ctx.clip
          /\ stdout[Len(stdout)].line = "output"
          /\ Len(stdout[Len(stdout)].v) = Len(result)

----------------------------------------------------------------------------
(* Property of login(), checked under LoginSpec *)

\* C10: once the process-wide token is set, a further login call leaves it
\* unchanged and does not run the secret-retrieval tool again; a failed
\* retrieval aborts and leaves the token unset.
C10_TokenResolvedOnce ==
    [][ /\ Heroku_Token # None => (Heroku_Token' = Heroku_Token /\ opLog' = opLog)
        /\ error' = "SystemExit" => (pc' = "login_raised" /\ Heroku_Token' = Heroku_Token)
      ]_vars
====
